---- MODULE Spec2Model ----
(***************************************************************************)
(* Tag Management Service (src/main.py): the suggestion generator          *)
(* (/generate-suggestions) and the integration executor                    *)
(* (/execute-integration) over the three Firestore collections             *)
(* articles, dictionary and suggestion_tags.                               *)
(***************************************************************************)
EXTENDS Integers, Sequences, FiniteSets, TLC

VARIABLES articles, dictionary, suggestions, last, prev, runs, failures

vars == <<articles, dictionary, suggestions, last, prev, runs, failures>>

(***************************************************************************)
(* Bounds                                                                  *)
(***************************************************************************)
NumArticles == 1
MaxFailures == 2

(***************************************************************************)
(* Tags are strings, modelled as sequences of characters so that len() and *)
(* the substring test `in` are computed as Python computes them.           *)
(***************************************************************************)
TagA == <<"a">>
TagB == <<"b">>
TagAB == <<"a", "b">>
TagABC == <<"a", "b", "c">>
Tags == {TagA, TagB, TagAB, TagABC}

EmptyStr == <<>>
\* Python's None where a tag is read from a field the document lacks; a
\* one-element sequence that is no tag, so that it compares with tags
NoTag == <<"None">>
NoTime == "unset"
ServerTimestamp == "SERVER_TIMESTAMP"

Range(list) == {list[k] : k \in DOMAIN list}

\* Python: x in list
Contains(list, x) == \E k \in DOMAIN list : list[k] = x

\* Python: tag1 in tag2, for strings
IsSubstring(x, y) ==
    \E k \in 0..(Len(y) - Len(x)) : SubSeq(y, k + 1, k + Len(x)) = x

\* Python: list(set(...)) -- the elements once each, in an order that
\* depends on the hash seed of the process
ListOfSet(S) == {q \in [1..Cardinality(S) -> S] : Range(q) = S}

(***************************************************************************)
(* The corpus the service is started on.  Documents of `articles` hold     *)
(* aiGenerated.categories and aiGenerated.tags (a missing aiGenerated      *)
(* reads as two empty lists); documents of `dictionary` hold termName,     *)
(* definition and constituentTags.  The dictionary is streamed in          *)
(* ascending document id; termName is unique among its documents.          *)
(***************************************************************************)
ArticleIds == 1..NumArticles

Article(c, t) == [categories |-> c, tags |-> t]

ArticleChoices ==
    { Article(<<TagA>>, <<TagA, TagAB>>),
      Article(<<>>, <<TagB, TagA, TagA>>),
      Article(<<TagAB>>, <<TagABC, TagAB>>),
      Article(<<>>, <<>>) }

Entry(n, d, c) == [termName |-> n, definition |-> d, constituentTags |-> c]

DictChain ==
    <<Entry(TagABC, "def", <<TagA, TagAB>>),
      Entry(TagA, "def", <<>>),
      Entry(TagAB, "def", <<TagA, TagA>>)>>

DictMixed ==
    <<Entry(TagA, "def", <<>>),
      Entry(TagB, "", <<TagA, TagAB>>),
      Entry(EmptyStr, "def", <<TagA>>),
      Entry(TagAB, "def", <<TagB>>)>>

DictFlat ==
    <<Entry(TagA, "def", <<TagB>>),
      Entry(TagB, "def", <<>>),
      Entry(NoTag, "def", <<TagA>>)>>

DictChoices == {DictChain, DictMixed, DictFlat}

(***************************************************************************)
(* collect_all_tags_and_definitions                                        *)
(***************************************************************************)
ArticleTags(arts) ==
    UNION {Range(arts[a].categories) \cup Range(arts[a].tags) : a \in DOMAIN arts}

\* `if term_name:` and `if definition:` (definitions are kept as TLA+ strings)
TermTruthy(n) == n /= EmptyStr /\ n /= NoTag

\* mutant: a definition counts as soon as the field is there
DefinitionPresent(d) == TRUE

DefinitionTruthy(d) == d /= ""

\* mutant: the termName is added to all_tags only under `if definition:`
TermNamesDefined(dict) ==
    {dict[d].termName :
        d \in {e \in DOMAIN dict : TermTruthy(dict[e].termName)
                                     /\ DefinitionTruthy(dict[e].definition)}}

TermNames(dict) ==
    {dict[d].termName : d \in {e \in DOMAIN dict : TermTruthy(dict[e].termName)}}

AllTags(arts, dict) == ArticleTags(arts) \cup TermNames(dict)

\* the keys of tag_definitions, in insertion order (the stream order of the
\* dictionary; a key assigned twice keeps its first position)
RECURSIVE DefinitionKeys(_, _)
DefinitionKeys(dict, ids) ==
    IF ids = {} THEN <<>>
    ELSE LET d == CHOOSE e \in ids : \A f \in ids : f <= e
             keys == DefinitionKeys(dict, ids \ {d})
         IN  IF TermTruthy(dict[d].termName) /\ DefinitionTruthy(dict[d].definition)
                /\ ~Contains(keys, dict[d].termName)
             THEN Append(keys, dict[d].termName)
             ELSE keys

TagDefinitions(dict) == DefinitionKeys(dict, DOMAIN dict)

DefinedTags(dict) == Range(TagDefinitions(dict))

\* the triple returned at line 111 (tag_definitions by its keys in order)
Collect(arts, dict) ==
    [all_tags |-> AllTags(arts, dict),
     defined_tags |-> DefinedTags(dict),
     tag_definitions |-> TagDefinitions(dict)]

\* what an operation that does not run the collector has collected
NotCollected == [all_tags |-> {}, defined_tags |-> {}, tag_definitions |-> <<>>]

(***************************************************************************)
(* generate_definition_suggestions                                         *)
(***************************************************************************)
\* mutant: the generator inserts the suggestion as already approved
DefineSuggestionApproved(tag) ==
    [type |-> "define_tag", sourceTag |-> NoTag, targetTag |-> tag,
     status |-> "approved", reviewedAt |-> NoTime]

DefineSuggestion(tag) ==
    [type |-> "define_tag", sourceTag |-> NoTag, targetTag |-> tag,
     status |-> "pending", reviewedAt |-> NoTime]

\* mutant: the insert writes over the newest document instead of adding one
AddSuggestionOverwrite(store, data) ==
    IF store = <<>> THEN <<data>> ELSE [store EXCEPT ![Len(store)] = data]

AddSuggestion(store, data) == Append(store, data)

\* mutant: the existence query filters on the other suggestion type
DefineExistsWrongType(store, tag) ==
    \E k \in DOMAIN store :
        store[k].targetTag = tag /\ store[k].type = "integrate_tags"

\* mutant: the existence query skips completed suggestions
DefineExistsUnresolved(store, tag) ==
    \E k \in DOMAIN store :
        /\ store[k].targetTag = tag /\ store[k].type = "define_tag"
        /\ store[k].status /= "completed"

DefineExists(store, tag) ==
    \E k \in DOMAIN store :
        store[k].targetTag = tag /\ store[k].type = "define_tag"

RECURSIVE GenerateDefinitionSuggestions(_, _)
GenerateDefinitionSuggestions(store, order) ==
    IF order = <<>> THEN store
    ELSE LET tag == Head(order)
             next == IF ~DefineExists(store, tag)
                     THEN AddSuggestion(store, DefineSuggestion(tag))
                     ELSE store
         IN  GenerateDefinitionSuggestions(next, Tail(order))

(***************************************************************************)
(* generate_integration_suggestions                                        *)
(***************************************************************************)
\* mutant: the source is the tag enumerated first, whatever its length
SourceOfFirst(tag1, tag2) == tag1

SourceOf(tag1, tag2) == IF Len(tag1) < Len(tag2) THEN tag1 ELSE tag2

TargetOf(tag1, tag2) == IF Len(tag1) < Len(tag2) THEN tag2 ELSE tag1

IntegrateSuggestion(source, target) ==
    [type |-> "integrate_tags", sourceTag |-> source, targetTag |-> target,
     status |-> "pending", reviewedAt |-> NoTime]

\* mutant: the existence query compares the two tags the wrong way round
IntegrateExistsSwapped(store, source, target) ==
    \E k \in DOMAIN store :
        /\ store[k].sourceTag = target
        /\ store[k].targetTag = source
        /\ store[k].type = "integrate_tags"

IntegrateExists(store, source, target) ==
    \E k \in DOMAIN store :
        /\ store[k].sourceTag = source
        /\ store[k].targetTag = target
        /\ store[k].type = "integrate_tags"

\* mutant: containment is tested in one direction only
SimilarOneWay(tag1, tag2) == IsSubstring(tag1, tag2)

Similar(tag1, tag2) == IsSubstring(tag1, tag2) \/ IsSubstring(tag2, tag1)

\* the body of the two nested loops, from position (i, j) onwards
RECURSIVE GenerateIntegrationFrom(_, _, _, _)
GenerateIntegrationFrom(store, tags, i, j) ==
    IF i > Len(tags) THEN store
    ELSE IF j > Len(tags) THEN GenerateIntegrationFrom(store, tags, i + 1, i + 2)
    ELSE LET tag1 == tags[i]
             tag2 == tags[j]
             source == SourceOf(tag1, tag2)
             target == TargetOf(tag1, tag2)
             next == IF Similar(tag1, tag2) /\ ~IntegrateExists(store, source, target)
                     THEN AddSuggestion(store, IntegrateSuggestion(source, target))
                     ELSE store
         IN  GenerateIntegrationFrom(next, tags, i, j + 1)

GenerateIntegrationSuggestions(store, tags) ==
    GenerateIntegrationFrom(store, tags, 1, 2)

(***************************************************************************)
(* execute_tag_integration                                                 *)
(***************************************************************************)
\* mutant: only the first occurrence of the source is replaced
ReplaceFirstOnly(list, source, target) ==
    [k \in DOMAIN list |->
        IF list[k] = source /\ \A j \in 1..(k - 1) : list[j] /= source
        THEN target ELSE list[k]]

Replace(list, source, target) ==
    [k \in DOMAIN list |-> IF list[k] = source THEN target ELSE list[k]]

\* mutant: the rewritten list is not passed through set()
RewriteListNoDedupe(list, source, target) ==
    IF Contains(list, source)
    THEN {Replace(list, source, target)}
    ELSE {list}

\* mutant: only the first occurrence of the source is replaced
RewriteListFirstOnly(list, source, target) ==
    IF Contains(list, source)
    THEN LET first == CHOOSE k \in DOMAIN list :
                          list[k] = source /\ \A j \in 1..(k - 1) : list[j] /= source
         IN  {[k \in DOMAIN list |-> IF k = first THEN target ELSE list[k]]}
    ELSE {list}

\* mutant: the list is rewritten whether or not it holds the source
RewriteListAlways(list, source, target) ==
    ListOfSet(Range(Replace(list, source, target)))

\* the lists one rewrite of a tag list can leave
RewriteList(list, source, target) ==
    IF Contains(list, source)
    THEN ListOfSet(Range(Replace(list, source, target)))
    ELSE {list}

RewriteArticle(doc, source, target) ==
    {Article(c, t) : c \in RewriteList(doc.categories, source, target),
                     t \in RewriteList(doc.tags, source, target)}

RewriteEntry(doc, source, target) ==
    {Entry(doc.termName, doc.definition, c) :
        c \in RewriteList(doc.constituentTags, source, target)}

\* where('termName', '==', source).limit(1): the first match in id order
SourceDocs(dict, source) ==
    LET hits == {d \in DOMAIN dict : dict[d].termName = source}
    IN  IF hits = {} THEN {}
        ELSE {CHOOSE d \in hits : \A e \in hits : d <= e}

\* mutant: the source entry is queried but never deleted
DeleteSourceSkipped(dict, source) == dict

DeleteSource(dict, source) ==
    [d \in (DOMAIN dict) \ SourceDocs(dict, source) |-> dict[d]]

ArticlesAfter(arts, source, target) ==
    {f \in [DOMAIN arts ->
              UNION {RewriteArticle(arts[a], source, target) : a \in DOMAIN arts}] :
        \A a \in DOMAIN arts : f[a] \in RewriteArticle(arts[a], source, target)}

DictionaryAfter(dict, source, target) ==
    {DeleteSource(f, source) :
        f \in {g \in [DOMAIN dict ->
                       UNION {RewriteEntry(dict[d], source, target) : d \in DOMAIN dict}] :
                 \A d \in DOMAIN dict : g[d] \in RewriteEntry(dict[d], source, target)}}

(***************************************************************************)
(* State machine                                                           *)
(***************************************************************************)
\* the workers that serve requests, and what a worker holds between the
\* store operations of one request: its position, the suggestion and tags
\* of an execute-integration request, the streamed snapshot and the
\* documents left to visit, the writes it has committed, and the response
Workers == {"w1", "w2"}

NoOrigin == [sid |-> 0, articles |-> <<>>, dictionary |-> <<>>]

IdleRun ==
    [pc |-> "idle", sid |-> 0, source |-> NoTag, target |-> NoTag,
     arts |-> <<>>, dict |-> <<>>, todo |-> {}, writes |-> <<>>,
     stale |-> FALSE, result |-> "none", origin |-> NoOrigin,
     order |-> <<>>, tags |-> <<>>, i |-> 0, j |-> 0, found |-> FALSE]

Snapshot == [articles |-> articles, dictionary |-> dictionary,
             suggestions |-> suggestions, op |-> last.op, sid |-> last.sid,
             result |-> last.result, collected |-> last.collected]

Init ==
    /\ articles \in [ArticleIds -> ArticleChoices]
    /\ dictionary \in DictChoices
    /\ suggestions = <<>>
    /\ last = [op |-> "init", sid |-> 0, result |-> "none",
               collected |-> NotCollected]
    /\ prev = [articles |-> articles, dictionary |-> dictionary,
               suggestions |-> <<>>, op |-> "init", sid |-> 0,
               result |-> "none", collected |-> NotCollected]
    /\ runs = [w \in Workers |-> IdleRun]
    /\ failures = 0

\* POST /generate-suggestions
GenerateSuggestions ==
    \E order \in ListOfSet(AllTags(articles, dictionary) \ DefinedTags(dictionary)) :
        /\ suggestions' = GenerateIntegrationSuggestions(
                              GenerateDefinitionSuggestions(suggestions, order),
                              TagDefinitions(dictionary))
        /\ UNCHANGED <<articles, dictionary, runs, failures>>
        /\ last' = [op |-> "generate", sid |-> 0, result |-> "success",
                     collected |-> Collect(articles, dictionary)]
        /\ prev' = Snapshot

\* the reviewer (outside the service) approves a pending suggestion
Approve ==
    \E sid \in DOMAIN suggestions :
        /\ suggestions[sid].status = "pending"
        /\ suggestions' = [suggestions EXCEPT ![sid].status = "approved"]
        /\ UNCHANGED <<articles, dictionary, runs, failures>>
        /\ last' = [op |-> "approve", sid |-> sid, result |-> "success",
                     collected |-> NotCollected]
        /\ prev' = Snapshot

\* mutant: only the existence of the suggestion is tested
RejectedIfMissing(store, sid) == sid \notin DOMAIN store

\* mutant: suggestions of another type than integrate_tags are refused
RejectedUnlessIntegrate(store, sid) ==
    IF sid \notin DOMAIN store THEN TRUE
    ELSE store[sid].status /= "approved" \/ store[sid].type /= "integrate_tags"

\* the test of line 68; sid 0 stands for a request without suggestionId,
\* Len(suggestions) + 1 for the id of no document
Rejected(store, sid) ==
    IF sid \notin DOMAIN store THEN TRUE
    ELSE store[sid].status /= "approved"

\* POST /execute-integration
ExecuteIntegration ==
    \E sid \in 0..(Len(suggestions) + 1) :
        IF Rejected(suggestions, sid)
        THEN /\ UNCHANGED <<articles, dictionary, suggestions, runs, failures>>
             /\ last' = [op |-> "execute", sid |-> sid, result |-> "error",
                          collected |-> NotCollected]
             /\ prev' = Snapshot
        ELSE LET source == suggestions[sid].sourceTag
                 target == suggestions[sid].targetTag
             IN  /\ UNCHANGED <<runs, failures>>
                 /\ articles' \in ArticlesAfter(articles, source, target)
                 /\ dictionary' \in DictionaryAfter(dictionary, source, target)
                 /\ suggestions' = [suggestions EXCEPT
                                       ![sid].status = "completed",
                                       ![sid].reviewedAt = ServerTimestamp]
                 /\ last' = [op |-> "execute", sid |-> sid, result |-> "success",
                              collected |-> NotCollected]
                 /\ prev' = Snapshot

Next == GenerateSuggestions \/ Approve \/ ExecuteIntegration

Spec == Init /\ [][Next]_vars

(***************************************************************************)
(* The execute-integration request, one store operation per step           *)
(***************************************************************************)
First(ids) == CHOOSE d \in ids : \A e \in ids : d <= e

\* lines 182 and 188
NeedsUpdate(doc, source) ==
    Contains(doc.categories, source) \/ Contains(doc.tags, source)

\* mutant: the handler of the exception marks the suggestion completed
OnExceptionCompleted(store, sid) ==
    [store EXCEPT ![sid].status = "completed"]

\* lines 83-85: the exception is logged and answered with 500
OnException(store, sid) == store

Running(w) == runs[w].pc \notin {"idle", "done"}

ApproveAll(store) == [k \in DOMAIN store |-> [store[k] EXCEPT !.status = "approved"]]

\* a corpus on which generateSuggestions has run once and of which the
\* reviewer has approved every suggestion
StepInit ==
    /\ articles \in [ArticleIds -> ArticleChoices]
    /\ dictionary \in DictChoices
    /\ \E order \in ListOfSet(AllTags(articles, dictionary) \ DefinedTags(dictionary)) :
          suggestions = ApproveAll(GenerateIntegrationSuggestions(
                                       GenerateDefinitionSuggestions(<<>>, order),
                                       TagDefinitions(dictionary)))
    /\ last = [op |-> "generate", sid |-> 0, result |-> "success",
               collected |-> Collect(articles, dictionary)]
    /\ prev = [articles |-> articles, dictionary |-> dictionary,
               suggestions |-> <<>>, op |-> "init", sid |-> 0,
               result |-> "none", collected |-> NotCollected]
    /\ runs = [w \in Workers |-> IdleRun]
    /\ failures = 0

\* lines 57-69, the request is refused
ExecReject(w, sid) ==
    /\ runs[w].pc = "idle"
    /\ Rejected(suggestions, sid)
    /\ runs' = [runs EXCEPT ![w].pc = "done", ![w].sid = sid,
                            ![w].result = "rejected"]
    /\ UNCHANGED <<articles, dictionary, suggestions, last, prev, failures>>

\* lines 65-72, the suggestion is read and found approved
ExecAccept(w, sid) ==
    /\ runs[w].pc = "idle"
    /\ ~Rejected(suggestions, sid)
    /\ runs' = [runs EXCEPT ![w] =
                  [IdleRun EXCEPT
                      !.pc = "stream_articles",
                      !.sid = sid,
                      !.source = suggestions[sid].sourceTag,
                      !.target = suggestions[sid].targetTag,
                      !.result = "running",
                      !.origin = IF runs[w].origin.sid = sid
                                 THEN runs[w].origin
                                 ELSE [sid |-> sid, articles |-> articles,
                                       dictionary |-> dictionary]]]
    /\ UNCHANGED <<articles, dictionary, suggestions, last, prev, failures>>

\* line 176, articles_ref.stream()
ExecStreamArticles(w) ==
    /\ runs[w].pc = "stream_articles"
    /\ runs' = [runs EXCEPT ![w].pc = "articles",
                            ![w].arts = articles,
                            ![w].todo = DOMAIN articles]
    /\ UNCHANGED <<articles, dictionary, suggestions, last, prev, failures>>

\* lines 177-195, one document of the stream
ExecArticle(w) ==
    /\ runs[w].pc = "articles"
    /\ runs[w].todo /= {}
    /\ LET a == First(runs[w].todo)
           doc == runs[w].arts[a]
       IN  IF NeedsUpdate(doc, runs[w].source)
           THEN \E new \in RewriteArticle(doc, runs[w].source, runs[w].target) :
                   /\ articles' = [articles EXCEPT ![a] = new]
                   /\ runs' = [runs EXCEPT
                                 ![w].todo = @ \ {a},
                                 ![w].writes = Append(@, "article"),
                                 ![w].stale = @ \/ articles[a] /= doc]
           ELSE /\ runs' = [runs EXCEPT ![w].todo = @ \ {a}]
                /\ UNCHANGED articles
    /\ UNCHANGED <<dictionary, suggestions, last, prev, failures>>

\* line 199, dict_ref.stream()
ExecStreamDictionary(w) ==
    /\ runs[w].pc = "articles"
    /\ runs[w].todo = {}
    /\ runs' = [runs EXCEPT ![w].pc = "dictionary",
                            ![w].dict = dictionary,
                            ![w].todo = DOMAIN dictionary]
    /\ UNCHANGED <<articles, dictionary, suggestions, last, prev, failures>>

\* lines 200-212, one document of the stream; update() of a document that
\* is no longer there raises
ExecEntry(w) ==
    /\ runs[w].pc = "dictionary"
    /\ runs[w].todo /= {}
    /\ LET d == First(runs[w].todo)
           doc == runs[w].dict[d]
       IN  IF ~Contains(doc.constituentTags, runs[w].source)
           THEN /\ runs' = [runs EXCEPT ![w].todo = @ \ {d}]
                /\ UNCHANGED <<dictionary, suggestions>>
           ELSE IF d \in DOMAIN dictionary
           THEN \E new \in RewriteList(doc.constituentTags, runs[w].source,
                                       runs[w].target) :
                   /\ dictionary' = [dictionary EXCEPT ![d].constituentTags = new]
                   /\ runs' = [runs EXCEPT
                                 ![w].todo = @ \ {d},
                                 ![w].writes = Append(@, "entry"),
                                 ![w].stale = @ \/ dictionary[d].constituentTags
                                                     /= doc.constituentTags]
                   /\ UNCHANGED suggestions
           ELSE /\ runs' = [runs EXCEPT ![w].pc = "done", ![w].result = "error"]
                /\ suggestions' = OnException(suggestions, runs[w].sid)
                /\ UNCHANGED dictionary
    /\ UNCHANGED <<articles, last, prev, failures>>

\* lines 215-217, the query for the source entry and its delete
ExecDelete(w) ==
    /\ runs[w].pc = "dictionary"
    /\ runs[w].todo = {}
    /\ dictionary' = DeleteSource(dictionary, runs[w].source)
    /\ runs' = [runs EXCEPT
                  ![w].pc = "complete",
                  ![w].writes = IF SourceDocs(dictionary, runs[w].source) = {}
                                THEN @ ELSE Append(@, "delete")]
    /\ UNCHANGED <<articles, suggestions, last, prev, failures>>

\* line 78
ExecComplete(w) ==
    /\ runs[w].pc = "complete"
    /\ suggestions' = [suggestions EXCEPT
                          ![runs[w].sid].status = "completed",
                          ![runs[w].sid].reviewedAt = ServerTimestamp]
    /\ runs' = [runs EXCEPT ![w].pc = "done",
                            ![w].writes = Append(@, "complete"),
                            ![w].result = "success"]
    /\ UNCHANGED <<articles, dictionary, last, prev, failures>>

\* the store operation the run is about to make raises (or the process
\* stops): nothing is written by it, lines 83-85 answer 500
ExecFail(w) ==
    /\ Running(w)
    /\ failures < MaxFailures
    /\ failures' = failures + 1
    /\ runs' = [runs EXCEPT ![w].pc = "done", ![w].result = "error"]
    /\ suggestions' = OnException(suggestions, runs[w].sid)
    /\ UNCHANGED <<articles, dictionary, last, prev>>

\* the response is sent and the worker is free for the next request; the
\* corpus a failed run started from is kept until the suggestion is completed
ExecReturn(w) ==
    /\ runs[w].pc = "done"
    /\ runs' = [runs EXCEPT ![w] =
                  [IdleRun EXCEPT !.origin = IF runs[w].result = "success"
                                             THEN NoOrigin ELSE runs[w].origin]]
    /\ UNCHANGED <<articles, dictionary, suggestions, last, prev, failures>>

ExecStep(w) ==
    \/ ExecStreamArticles(w)
    \/ ExecArticle(w)
    \/ ExecStreamDictionary(w)
    \/ ExecEntry(w)
    \/ ExecDelete(w)
    \/ ExecComplete(w)

SuggestionIds == 0..(Len(suggestions) + 1)

\* two workers serve one execute-integration request each, at the same time
NextExecutors ==
    \/ \E w \in Workers, sid \in SuggestionIds : ExecReject(w, sid)
    \/ \E w \in Workers, sid \in SuggestionIds : ExecAccept(w, sid)
    \/ \E w \in Workers : ExecStep(w)

SpecExecutors == StepInit /\ [][NextExecutors]_vars

\* one worker serves execute-integration requests one after the other; a
\* store operation may fail, MaxFailures times in all
NextRetry ==
    \/ \E sid \in SuggestionIds : ExecReject("w1", sid)
    \/ \E sid \in SuggestionIds : ExecAccept("w1", sid)
    \/ ExecStep("w1")
    \/ ExecFail("w1")
    \/ ExecReturn("w1")

SpecRetry == StepInit /\ [][NextRetry]_vars

\* the caller keeps calling while an approved suggestion is left, and a
\* request that has started goes on until it returns or fails
SpecRetryFair ==
    /\ SpecRetry
    /\ WF_vars(ExecStep("w1"))
    /\ WF_vars(ExecReturn("w1"))
    /\ SF_vars(\E sid \in SuggestionIds : ExecAccept("w1", sid))

(***************************************************************************)
(* generate_suggestions_endpoint, one store operation at a time            *)
(***************************************************************************)
\* lines 35-38: the collector has run, and set() gives the undefined tags
\* in some order
GenCollect(w) ==
    /\ runs[w].pc = "idle"
    /\ \E order \in ListOfSet(AllTags(articles, dictionary)
                                 \ DefinedTags(dictionary)) :
          runs' = [runs EXCEPT ![w] =
                     [IdleRun EXCEPT !.pc = "define_query",
                                     !.result = "running",
                                     !.order = order,
                                     !.tags = TagDefinitions(dictionary)]]
    /\ UNCHANGED <<articles, dictionary, suggestions, last, prev, failures>>

\* lines 131-132, the existence query for the next undefined tag
GenDefineQuery(w) ==
    /\ runs[w].pc = "define_query"
    /\ runs[w].order /= <<>>
    /\ runs' = [runs EXCEPT
                  ![w].pc = "define_add",
                  ![w].found = DefineExists(suggestions, Head(runs[w].order))]
    /\ UNCHANGED <<articles, dictionary, suggestions, last, prev, failures>>

\* lines 132-133, add() unless the query has found a document
GenDefineAdd(w) ==
    /\ runs[w].pc = "define_add"
    /\ suggestions' = IF runs[w].found THEN suggestions
                      ELSE AddSuggestion(suggestions,
                                         DefineSuggestion(Head(runs[w].order)))
    /\ runs' = [runs EXCEPT ![w].pc = "define_query",
                            ![w].order = Tail(@),
                            ![w].found = FALSE]
    /\ UNCHANGED <<articles, dictionary, last, prev, failures>>

\* lines 143-145, the loop over the undefined tags is over and the loops
\* over the pairs of defined tags begin
GenPairs(w) ==
    /\ runs[w].pc = "define_query"
    /\ runs[w].order = <<>>
    /\ runs' = [runs EXCEPT ![w].pc = "pair_query", ![w].i = 1, ![w].j = 2]
    /\ UNCHANGED <<articles, dictionary, suggestions, last, prev, failures>>

\* lines 144-163, the loops up to the existence query of the next pair
\* whose tags contain one another
GenPairQuery(w) ==
    /\ runs[w].pc = "pair_query"
    /\ LET r == runs[w]
       IN  IF r.i > Len(r.tags)
           THEN runs' = [runs EXCEPT ![w].pc = "done", ![w].result = "success"]
           ELSE IF r.j > Len(r.tags)
           THEN runs' = [runs EXCEPT ![w].i = r.i + 1, ![w].j = r.i + 2]
           ELSE IF ~Similar(r.tags[r.i], r.tags[r.j])
           THEN runs' = [runs EXCEPT ![w].j = r.j + 1]
           ELSE runs' = [runs EXCEPT
                           ![w].pc = "pair_add",
                           ![w].found =
                               IntegrateExists(suggestions,
                                   SourceOf(r.tags[r.i], r.tags[r.j]),
                                   TargetOf(r.tags[r.i], r.tags[r.j]))]
    /\ UNCHANGED <<articles, dictionary, suggestions, last, prev, failures>>

\* lines 163-164, add() unless the query has found a document
GenPairAdd(w) ==
    /\ runs[w].pc = "pair_add"
    /\ LET r == runs[w]
           source == SourceOf(r.tags[r.i], r.tags[r.j])
           target == TargetOf(r.tags[r.i], r.tags[r.j])
       IN  suggestions' = IF r.found THEN suggestions
                          ELSE AddSuggestion(suggestions,
                                             IntegrateSuggestion(source, target))
    /\ runs' = [runs EXCEPT ![w].pc = "pair_query",
                            ![w].j = @ + 1,
                            ![w].found = FALSE]
    /\ UNCHANGED <<articles, dictionary, last, prev, failures>>

GenStep(w) ==
    \/ GenCollect(w)
    \/ GenDefineQuery(w)
    \/ GenDefineAdd(w)
    \/ GenPairs(w)
    \/ GenPairQuery(w)
    \/ GenPairAdd(w)

\* two requests to /generate-suggestions, each served by its own worker
NextGenerators == \E w \in Workers : GenStep(w)

SpecGenerators == Init /\ [][NextGenerators]_vars


(***************************************************************************)
(* Properties                                                              *)
(***************************************************************************)
IsIntegrate(sg) == sg.type = "integrate_tags"

IsDefine(sg) == sg.type = "define_tag"

Unresolved(sg) == sg.status \in {"pending", "approved"}

Referenced(arts, dict, tag) ==
    \/ \E a \in DOMAIN arts :
          Contains(arts[a].categories, tag) \/ Contains(arts[a].tags, tag)
    \/ \E d \in DOMAIN dict : Contains(dict[d].constituentTags, tag)

Keyed(dict, tag) == \E d \in DOMAIN dict : dict[d].termName = tag

\* C1: in every reachable state, the sourceTag of every completed
\* integrate_tags suggestion is in no article's categories or tags, in no
\* dictionary entry's constituentTags, and is no dictionary entry's termName.
C1_CompletedSourceGone ==
    \A k \in DOMAIN suggestions :
        (IsIntegrate(suggestions[k]) /\ suggestions[k].status = "completed")
        => /\ ~Referenced(articles, dictionary, suggestions[k].sourceTag)
           /\ ~Keyed(dictionary, suggestions[k].sourceTag)

\* C2: a generateSuggestions run that directly follows a generateSuggestions
\* run (the corpus is the same) inserts no suggestion.
C2_SecondRunInsertsNothing ==
    (last.op = "generate" /\ prev.op = "generate")
    => suggestions = prev.suggestions

C2_Witness ==
    /\ last.op = "generate" /\ prev.op = "generate"
    /\ \E k \in DOMAIN suggestions : IsDefine(suggestions[k])
    /\ \E k \in DOMAIN suggestions :
          IsIntegrate(suggestions[k]) /\ suggestions[k].status = "completed"

\* C3: no two unresolved (pending or approved) suggestions have the same
\* identifying key: (define_tag, targetTag), (integrate_tags, sourceTag,
\* targetTag).
C3_UnresolvedKeysUnique ==
    \A j, k \in DOMAIN suggestions :
        (j /= k /\ Unresolved(suggestions[j]) /\ Unresolved(suggestions[k])
              /\ suggestions[j].type = suggestions[k].type)
        => \/ suggestions[j].targetTag /= suggestions[k].targetTag
           \/ suggestions[j].sourceTag /= suggestions[k].sourceTag

C3_Witness ==
    /\ last.op = "generate"
    /\ prev.op \in {"approve", "execute"}
    /\ suggestions = prev.suggestions
    /\ \E j, k \in DOMAIN suggestions :
          /\ IsDefine(suggestions[j]) /\ suggestions[j].status = "approved"
          /\ IsIntegrate(suggestions[k]) /\ suggestions[k].status = "pending"

\* C4: every integrate_tags suggestion has non-empty, distinct sourceTag and
\* targetTag, the sourceTag strictly shorter than and a substring of the
\* targetTag; the direction chosen for two tags does not depend on which of
\* them is enumerated first, so no suggestion for the reverse pair exists.
C4_MergeDirection ==
    /\ \A k \in DOMAIN suggestions :
          IsIntegrate(suggestions[k])
          => LET s == suggestions[k].sourceTag
                 t == suggestions[k].targetTag
             IN  /\ s \in Tags /\ t \in Tags
                 /\ s /= EmptyStr /\ t /= EmptyStr
                 /\ s /= t
                 /\ Len(s) < Len(t)
                 /\ IsSubstring(s, t)
                 /\ ~IntegrateExists(suggestions, t, s)
    /\ \A x, y \in Tags :
          (x /= y /\ Similar(x, y))
          => /\ SourceOf(x, y) = SourceOf(y, x)
             /\ TargetOf(x, y) = TargetOf(y, x)

\* the generator has met a containing pair with the longer tag first and
\* another with the shorter tag first
C4_Witness ==
    LET tags == TagDefinitions(dictionary)
    IN  /\ last.op = "generate"
        /\ \E i, j \in DOMAIN tags :
              /\ i < j /\ Len(tags[i]) > Len(tags[j])
              /\ IntegrateExists(suggestions, tags[j], tags[i])
        /\ \E i, j \in DOMAIN tags :
              /\ i < j /\ Len(tags[i]) < Len(tags[j])
              /\ IntegrateExists(suggestions, tags[i], tags[j])

NoDuplicates(list) ==
    \A i, j \in DOMAIN list : i /= j => list[i] /= list[j]

\* the last operation was a successful executeIntegration of an
\* integrate_tags suggestion
Executed ==
    /\ last.op = "execute" /\ last.result = "success"
    /\ IsIntegrate(prev.suggestions[last.sid])

ExecSource == prev.suggestions[last.sid].sourceTag

ExecTarget == prev.suggestions[last.sid].targetTag

MergedList(old, new) ==
    Contains(old, ExecSource)
    => /\ Range(new) = (Range(old) \ {ExecSource}) \cup {ExecTarget}
       /\ NoDuplicates(new)

\* C5: after a successful executeIntegration of (s, t), every article
\* collection (categories, tags) that contained s equals, as a set, the old
\* set minus s plus t, and has no duplicate element.
C5_ArticleMerge ==
    Executed
    => \A a \in DOMAIN articles :
          /\ MergedList(prev.articles[a].categories, articles[a].categories)
          /\ MergedList(prev.articles[a].tags, articles[a].tags)

\* a collection that held s twice, and one that held s and t
C5_Witness ==
    /\ Executed
    /\ \E a \in DOMAIN articles :
          \/ /\ Contains(prev.articles[a].tags, ExecSource)
             /\ Contains(prev.articles[a].tags, ExecTarget)
             /\ Contains(prev.articles[a].categories, ExecSource)
          \/ /\ ~NoDuplicates(prev.articles[a].tags)
             /\ Contains(prev.articles[a].tags, ExecSource)
             /\ Len(articles[a].tags) = 2

\* C6: after a successful executeIntegration of (s, t), every remaining
\* dictionary entry whose constituentTags contained s contains t and not s,
\* without duplicates; no entry has termName s; every entry whose termName
\* is not s still exists.
C6_DictionaryMerge ==
    Executed
    => /\ \A d \in DOMAIN dictionary :
             Contains(prev.dictionary[d].constituentTags, ExecSource)
             => /\ Contains(dictionary[d].constituentTags, ExecTarget)
                /\ ~Contains(dictionary[d].constituentTags, ExecSource)
                /\ NoDuplicates(dictionary[d].constituentTags)
       /\ ~Keyed(dictionary, ExecSource)
       /\ \A d \in DOMAIN prev.dictionary :
             prev.dictionary[d].termName /= ExecSource
             => /\ d \in DOMAIN dictionary
                /\ dictionary[d].termName = prev.dictionary[d].termName
                /\ dictionary[d].definition = prev.dictionary[d].definition

C6_Witness ==
    /\ Executed
    /\ Keyed(prev.dictionary, ExecSource)
    /\ \E d \in DOMAIN dictionary :
          /\ Contains(prev.dictionary[d].constituentTags, ExecSource)
          /\ Contains(prev.dictionary[d].constituentTags, ExecTarget)

\* the suggestion named by the last executeIntegration call did not exist or
\* was not approved
NotApproved ==
    /\ last.op = "execute"
    /\ \/ last.sid \notin DOMAIN prev.suggestions
       \/ prev.suggestions[last.sid].status /= "approved"

\* C7: executeIntegration on a suggestion that does not exist or is not
\* approved returns an error and leaves articles, dictionary and every
\* suggestion record unchanged.
C7_RejectedLeavesAll ==
    NotApproved
    => /\ last.result = "error"
       /\ articles = prev.articles
       /\ dictionary = prev.dictionary
       /\ suggestions = prev.suggestions

\* a pending merge whose source the corpus still references
C7_Witness ==
    /\ NotApproved
    /\ last.sid \in DOMAIN suggestions
    /\ suggestions[last.sid].status = "pending"
    /\ IsIntegrate(suggestions[last.sid])
    /\ Referenced(articles, dictionary, suggestions[last.sid].sourceTag)
    /\ Keyed(dictionary, suggestions[last.sid].sourceTag)

\* the last operation was a successful executeIntegration of an
\* integrate_tags suggestion, or the call on that suggestion that directly
\* follows it
FirstCall == Executed

SecondCall ==
    /\ last.op = "execute"
    /\ prev.op = "execute" /\ prev.result = "success" /\ prev.sid = last.sid
    /\ IsIntegrate(suggestions[last.sid])

\* C8: after a successful executeIntegration of (s, t), the corpus rewrite
\* for (s, t) applied to the corpus it left changes nothing, and a second
\* executeIntegration call on that suggestion, made directly after the
\* first, leaves the corpus as the first call left it.
C8_ReExecutionNoChange ==
    /\ (FirstCall \/ SecondCall)
       => LET s == suggestions[last.sid].sourceTag
              t == suggestions[last.sid].targetTag
          IN  /\ ArticlesAfter(articles, s, t) = {articles}
              /\ DictionaryAfter(dictionary, s, t) = {dictionary}
    /\ SecondCall => articles = prev.articles /\ dictionary = prev.dictionary

\* the second of two calls in sequence, where the corpus refers to the target
C8_Witness ==
    /\ SecondCall
    /\ suggestions[last.sid].status = "completed"
    /\ Referenced(articles, dictionary, suggestions[last.sid].targetTag)
    /\ \E a \in DOMAIN articles : Len(articles[a].tags) >= 2

\* C9: a suggestion is inserted as pending, and only by the generator; its
\* status changes only from pending to approved (by the reviewer) and from
\* approved to completed (by executeIntegration on that suggestion); a
\* completed suggestion is never changed again.
C9_StatusLifecycle ==
    /\ Len(suggestions) >= Len(prev.suggestions)
    /\ \A k \in DOMAIN suggestions :
          IF k \in DOMAIN prev.suggestions
          THEN LET old == prev.suggestions[k].status
                   new == suggestions[k].status
               IN  /\ old /= new
                      => \/ old = "pending" /\ new = "approved" /\ last.op = "approve"
                         \/ /\ old = "approved" /\ new = "completed"
                            /\ last.op = "execute" /\ last.sid = k
                   /\ old = "completed" => suggestions[k] = prev.suggestions[k]
          ELSE suggestions[k].status = "pending" /\ last.op = "generate"

\* a completion next to a suggestion completed earlier
C9_Witness ==
    /\ last.op = "execute" /\ last.result = "success"
    /\ prev.suggestions[last.sid].status = "approved"
    /\ suggestions[last.sid].status = "completed"
    /\ \E k \in DOMAIN prev.suggestions :
          k /= last.sid /\ prev.suggestions[k].status = "completed"

\* C10: generateSuggestions leaves every article and dictionary entry
\* unchanged, leaves every existing suggestion record unchanged, and only
\* appends suggestions with status pending.
C10_GenerateOnlyInserts ==
    last.op = "generate"
    => /\ articles = prev.articles
       /\ dictionary = prev.dictionary
       /\ Len(suggestions) >= Len(prev.suggestions)
       /\ SubSeq(suggestions, 1, Len(prev.suggestions)) = prev.suggestions
       /\ \A k \in (DOMAIN suggestions) \ (DOMAIN prev.suggestions) :
             /\ suggestions[k].status = "pending"
             /\ suggestions[k].reviewedAt = NoTime

\* a run that inserts next to approved and completed suggestions
C10_Witness ==
    /\ last.op = "generate"
    /\ Len(suggestions) > Len(prev.suggestions)
    /\ \E k \in DOMAIN prev.suggestions : prev.suggestions[k].status = "approved"
    /\ \E k \in DOMAIN prev.suggestions : prev.suggestions[k].status = "completed"

\* C11: the collector's result is a function of the corpus: two
\* generateSuggestions runs in sequence collect the same triple; all_tags is
\* the union of every article's categories and tags and of the non-empty
\* termNames; defined_tags is the set of non-empty termNames that have a
\* non-empty definition, and is a subset of all_tags; the run leaves the
\* corpus as it was.
C11_CollectorResult ==
    last.op = "generate"
    => /\ prev.op = "generate" => last.collected = prev.collected
       /\ last.collected.all_tags =
             {t \in Tags \cup {EmptyStr, NoTag} :
                 \/ \E a \in DOMAIN articles :
                       Contains(articles[a].categories, t) \/ Contains(articles[a].tags, t)
                 \/ /\ t \in Tags
                    /\ \E d \in DOMAIN dictionary : dictionary[d].termName = t}
       /\ last.collected.defined_tags =
             {t \in Tags :
                 \E d \in DOMAIN dictionary :
                     dictionary[d].termName = t /\ dictionary[d].definition /= ""}
       /\ last.collected.defined_tags = Range(last.collected.tag_definitions)
       /\ last.collected.defined_tags \subseteq last.collected.all_tags
       /\ articles = prev.articles /\ dictionary = prev.dictionary

\* a second run over a dictionary with an empty definition and an empty
\* termName
C11_Witness ==
    /\ last.op = "generate" /\ prev.op = "generate"
    /\ \E d \in DOMAIN dictionary :
          dictionary[d].termName \in Tags /\ dictionary[d].definition = ""
    /\ \E d \in DOMAIN dictionary : dictionary[d].termName = EmptyStr
    /\ last.collected.defined_tags /= {}
    /\ last.collected.all_tags \ last.collected.defined_tags /= {}

\* the tags that have a dictionary entry with a non-empty definition
HasDefinition(dict, tag) ==
    \E d \in DOMAIN dict : dict[d].termName = tag /\ dict[d].definition /= ""

\* the suggestions the last generateSuggestions run inserted
Inserted == (DOMAIN suggestions) \ (DOMAIN prev.suggestions)

\* C16: after a generateSuggestions run, every pair of distinct defined tags
\* of which one is a substring of the other has an integrate_tags suggestion
\* from the shorter to the longer; the run inserts no integrate_tags
\* suggestion for two tags without containment or for a tag that has no
\* non-empty definition.
C16_MergeCandidates ==
    last.op = "generate"
    => /\ \A x, y \in Tags :
             (/\ x /= y /\ IsSubstring(x, y)
              /\ HasDefinition(dictionary, x) /\ HasDefinition(dictionary, y))
             => \E k \in DOMAIN suggestions :
                   /\ IsIntegrate(suggestions[k])
                   /\ suggestions[k].sourceTag = x
                   /\ suggestions[k].targetTag = y
       /\ \A k \in Inserted :
             IsIntegrate(suggestions[k])
             => LET s == suggestions[k].sourceTag
                    t == suggestions[k].targetTag
                IN  /\ HasDefinition(dictionary, s) /\ HasDefinition(dictionary, t)
                    /\ s /= t
                    /\ IsSubstring(s, t) \/ IsSubstring(t, s)

\* a run that inserts a merge for a pair met longer tag first, next to a
\* termName with an empty definition that a defined tag contains
C16_Witness ==
    /\ last.op = "generate"
    /\ \E k \in Inserted : IsIntegrate(suggestions[k])
    /\ \/ \E d, e \in DOMAIN dictionary :
             /\ dictionary[d].termName \in Tags /\ dictionary[d].definition = ""
             /\ HasDefinition(dictionary, dictionary[e].termName)
             /\ IsSubstring(dictionary[d].termName, dictionary[e].termName)
             /\ ~IntegrateExists(suggestions, dictionary[d].termName,
                                 dictionary[e].termName)
       \/ \E d, e \in DOMAIN dictionary :
             /\ d < e
             /\ Len(dictionary[d].termName) > Len(dictionary[e].termName)
             /\ IntegrateExists(suggestions, dictionary[e].termName,
                                dictionary[d].termName)

\* C17: after a generateSuggestions run, every tag that an article uses or
\* that is a termName, and that has no non-empty definition, has a
\* define_tag suggestion; the run inserts no define_tag suggestion for a tag
\* with a non-empty definition.
C17_DefinitionGaps ==
    last.op = "generate"
    => /\ \A t \in Tags :
             (/\ \/ \E a \in DOMAIN articles :
                       Contains(articles[a].categories, t) \/ Contains(articles[a].tags, t)
                 \/ Keyed(dictionary, t)
              /\ ~HasDefinition(dictionary, t))
             => \E k \in DOMAIN suggestions :
                   IsDefine(suggestions[k]) /\ suggestions[k].targetTag = t
       /\ \A k \in Inserted :
             IsDefine(suggestions[k])
             => /\ suggestions[k].targetTag \in Tags
                /\ ~HasDefinition(dictionary, suggestions[k].targetTag)

\* a run that inserts the suggestion for a termName with an empty definition
\* that no article uses
C17_Witness ==
    /\ last.op = "generate"
    /\ \E k \in Inserted, d \in DOMAIN dictionary :
          /\ IsDefine(suggestions[k])
          /\ suggestions[k].targetTag = dictionary[d].termName
          /\ dictionary[d].definition = ""
          /\ \A a \in DOMAIN articles :
                /\ ~Contains(articles[a].categories, dictionary[d].termName)
                /\ ~Contains(articles[a].tags, dictionary[d].termName)

\* the last operation was a successful executeIntegration
Succeeded == last.op = "execute" /\ last.result = "success"

\* C18: a successful executeIntegration for (s, t) leaves every article
\* without s and every dictionary entry without s in constituentTags and
\* with another termName as it was; a rewritten list keeps every tag other
\* than s; every other suggestion is as it was.
C18_ExecuteFrame ==
    Succeeded
    => /\ \A a \in DOMAIN prev.articles :
             /\ (~Contains(prev.articles[a].categories, ExecSource)
                 /\ ~Contains(prev.articles[a].tags, ExecSource))
                => articles[a] = prev.articles[a]
             /\ ~Contains(prev.articles[a].categories, ExecSource)
                => articles[a].categories = prev.articles[a].categories
             /\ ~Contains(prev.articles[a].tags, ExecSource)
                => articles[a].tags = prev.articles[a].tags
             /\ Range(prev.articles[a].categories) \ {ExecSource}
                   \subseteq Range(articles[a].categories)
             /\ Range(prev.articles[a].tags) \ {ExecSource}
                   \subseteq Range(articles[a].tags)
       /\ DOMAIN articles = DOMAIN prev.articles
       /\ \A d \in DOMAIN prev.dictionary :
             (~Contains(prev.dictionary[d].constituentTags, ExecSource)
              /\ prev.dictionary[d].termName /= ExecSource)
             => d \in DOMAIN dictionary /\ dictionary[d] = prev.dictionary[d]
       /\ \A d \in DOMAIN dictionary :
             /\ d \in DOMAIN prev.dictionary
             /\ Range(prev.dictionary[d].constituentTags) \ {ExecSource}
                   \subseteq Range(dictionary[d].constituentTags)
             /\ dictionary[d].termName = prev.dictionary[d].termName
             /\ dictionary[d].definition = prev.dictionary[d].definition
       /\ Len(suggestions) = Len(prev.suggestions)
       /\ \A k \in DOMAIN suggestions :
             k /= last.sid => suggestions[k] = prev.suggestions[k]

\* a merge that rewrites an entry next to a list with a repeated tag that
\* does not hold the source
C18_Witness ==
    /\ Executed
    /\ Len(suggestions) >= 2
    /\ \E d \in DOMAIN dictionary :
          dictionary[d].constituentTags /= prev.dictionary[d].constituentTags
    /\ \/ \E a \in DOMAIN articles :
             /\ ~NoDuplicates(prev.articles[a].tags)
             /\ ~Contains(prev.articles[a].tags, ExecSource)
       \/ \E d \in DOMAIN dictionary :
             /\ ~NoDuplicates(prev.dictionary[d].constituentTags)
             /\ ~Contains(prev.dictionary[d].constituentTags, ExecSource)

\* C19: at most one suggestion record exists per identifying key, whatever
\* the status of the records: a key that a completed suggestion holds is
\* not inserted again.
C19_OneRecordPerKey ==
    \A j, k \in DOMAIN suggestions :
        (j /= k /\ suggestions[j].type = suggestions[k].type)
        => \/ suggestions[j].targetTag /= suggestions[k].targetTag
           \/ suggestions[j].sourceTag /= suggestions[k].sourceTag

\* a run over a corpus where the tag of a completed define_tag suggestion is
\* still without definition
C19_Witness ==
    /\ last.op = "generate"
    /\ suggestions = prev.suggestions
    /\ \E k \in DOMAIN suggestions :
          /\ IsDefine(suggestions[k])
          /\ suggestions[k].status = "completed"
          /\ suggestions[k].targetTag
                \in AllTags(articles, dictionary) \ DefinedTags(dictionary)

\* the last executeIntegration call named an approved define_tag suggestion
DefineExecuted ==
    /\ last.op = "execute"
    /\ last.sid \in DOMAIN prev.suggestions
    /\ IsDefine(prev.suggestions[last.sid])
    /\ prev.suggestions[last.sid].status = "approved"

\* C20: executeIntegration on an approved define_tag suggestion succeeds and
\* completes it; it leaves every article as it was, every remaining
\* dictionary entry as it was, and deletes no entry whose termName is a tag.
C20_DefineTagExecuted ==
    DefineExecuted
    => /\ last.result = "success"
       /\ suggestions[last.sid].status = "completed"
       /\ suggestions[last.sid].reviewedAt = ServerTimestamp
       /\ articles = prev.articles
       /\ \A d \in DOMAIN prev.dictionary :
             /\ prev.dictionary[d].termName \in Tags \cup {EmptyStr}
                => d \in DOMAIN dictionary
             /\ d \in DOMAIN dictionary => dictionary[d] = prev.dictionary[d]

\* the corpus uses the tag to define, and holds an entry without termName
C20_Witness ==
    /\ DefineExecuted
    /\ Referenced(articles, dictionary, suggestions[last.sid].targetTag)
    /\ \E d \in DOMAIN prev.dictionary : prev.dictionary[d].termName = NoTag

(***************************************************************************)
(* Properties of the interleaved runs                                      *)
(***************************************************************************)
\* the two workers run different approved suggestions
TwoRuns ==
    /\ runs["w1"].sid /= runs["w2"].sid
    /\ runs["w1"].result \in {"running", "success"}
    /\ runs["w2"].result \in {"running", "success"}

\* C12: when two executeIntegration runs for different suggestions
\* interleave, no run writes a document from a snapshot that is older than
\* the other run's committed rewrite of that document, and once both
\* suggestions are completed neither sourceTag is referenced by an article
\* or a dictionary entry.
C12_AtomicReadModifyWrite ==
    TwoRuns
    => /\ ~runs["w1"].stale /\ ~runs["w2"].stale
       /\ (runs["w1"].result = "success" /\ runs["w2"].result = "success")
          => \A w \in Workers :
                IsIntegrate(suggestions[runs[w].sid])
                => ~Referenced(articles, dictionary, runs[w].source)

\* C13: when two generateSuggestions runs interleave, with the existence
\* query and the insert as separate steps, they never end with two
\* suggestions of the same type, sourceTag and targetTag.
C13_InterleavedRunsNoDuplicates ==
    (\A w \in Workers : runs[w].pc = "done")
    => \A k, l \in DOMAIN suggestions :
          (/\ suggestions[k].type = suggestions[l].type
           /\ suggestions[k].sourceTag = suggestions[l].sourceTag
           /\ suggestions[k].targetTag = suggestions[l].targetTag)
          => k = l

\* C15: within one run the suggestion is approved until the run's last
\* write, which sets it completed after every rewrite and the delete are
\* committed; a run that fails has not written completed and leaves the
\* suggestion approved.
C15_CompletedLast ==
    LET r == runs["w1"]
        written == {k \in DOMAIN r.writes : r.writes[k] = "complete"}
    IN  /\ Running("w1")
           => /\ suggestions[r.sid].status = "approved"
              /\ suggestions[r.sid].reviewedAt = NoTime
              /\ written = {}
        /\ (r.pc = "done" /\ r.result = "success")
           => /\ suggestions[r.sid].status = "completed"
              /\ written = {Len(r.writes)}
              /\ ~Referenced(articles, dictionary, r.source)
              /\ ~Keyed(dictionary, r.source)
        /\ (r.pc = "done" /\ r.result = "error")
           => /\ suggestions[r.sid].status = "approved"
              /\ suggestions[r.sid].reviewedAt = NoTime
              /\ written = {}

\* a run that failed after it had committed a rewrite, the source still
\* being referenced
C15_Witness ==
    LET r == runs["w1"]
    IN  /\ r.pc = "done" /\ r.result = "error"
        /\ r.writes /= <<>>
        /\ Referenced(articles, dictionary, r.source)

\* no store is longer: one define_tag per tag and one integrate_tags per
\* ordered pair of tags where the shorter is contained in the longer
MaxSuggestionId ==
    Cardinality(Tags)
    + Cardinality({p \in Tags \X Tags :
                     p[1] /= p[2] /\ IsSubstring(p[1], p[2])})

\* what C14 says of a state: a failed run leaves the suggestion approved; a
\* run that succeeds leaves it completed, and leaves a corpus that one
\* uninterrupted run from the corpus of the first attempt can leave
RetrySafe ==
    LET r == runs["w1"]
    IN  /\ (r.pc = "done" /\ r.result = "error")
           => suggestions[r.sid].status = "approved"
        /\ (r.pc = "done" /\ r.result = "success")
           => /\ suggestions[r.sid].status = "completed"
              /\ r.origin.sid = r.sid
              /\ articles \in ArticlesAfter(r.origin.articles, r.source, r.target)
              /\ dictionary \in DictionaryAfter(r.origin.dictionary, r.source, r.target)

\* C14: a run that stops after a prefix of its writes leaves the suggestion
\* approved; a later run on it that is not interrupted completes it and
\* leaves the corpus that one uninterrupted run from the original corpus
\* leaves; when the caller keeps retrying and the failures end, the
\* suggestion of a failed run is eventually completed.
C14_RetryConverges ==
    /\ []RetrySafe
    /\ \A sid \in 1..MaxSuggestionId :
          (runs["w1"].pc = "done" /\ runs["w1"].result = "error"
              /\ runs["w1"].sid = sid)
          ~> (sid \in DOMAIN suggestions /\ suggestions[sid].status = "completed")

\* a retry that succeeds on a corpus whose articles an earlier, failed run
\* has rewritten
C14_Witness ==
    LET r == runs["w1"]
    IN  /\ r.pc = "done" /\ r.result = "success"
        /\ failures > 0
        /\ articles /= r.origin.articles
        /\ \A k \in DOMAIN r.writes : r.writes[k] /= "article"
====
